---- MODULE Spec2Model ----
(***************************************************************************)
(* Session controller and completion client of the AiAyat chat client.     *)
(*                                                                         *)
(* State: the React state of App (sessions, currentSessionId, isLoading,   *)
(* selectedModel, userSettings), the stopGenerationRef ref, the module     *)
(* level singleton of services/gemini (chatSession, currentModelId,        *)
(* currentApiKey), the clock read by Date.now(), and one record per        *)
(* handleSend invocation holding the values its closure captured and its   *)
(* locals (fullText, lastUpdateTime) together with its position; the two   *)
(* localStorage documents (sessions, settings), the file the last export   *)
(* downloaded and the phase of the page (loaded, mounted).                 *)
(*                                                                         *)
(* Strings are sequences of characters; a fixed literal of the source that *)
(* is only ever concatenated is one element of such a sequence.           *)
(***************************************************************************)
EXTENDS Integers, Sequences, FiniteSets, TLC

VARIABLES
    now,               \* the value Date.now() returned last
    userSettings,      \* App.tsx:13  null or {apiKey, userName}
    sessions,          \* App.tsx:16  ChatSession[]
    currentSessionId,  \* App.tsx:17
    isLoading,         \* App.tsx:20
    selectedModel,     \* App.tsx:25
    stopGenerationRef, \* App.tsx:32  stopGenerationRef.current
    chatSession,       \* App.tsx:477 singleton handle (NoChat = null)
    currentModelId,    \* App.tsx:478
    currentApiKey,     \* App.tsx:479
    sends,             \* one record per handleSend call that passed the guard
    store,             \* localStorage['ayat_chat_sessions']
    settingsStore,     \* localStorage['ayat_user_settings']
    syncWrite,         \* what the last handler itself wrote to the sessions
                       \* key before it returned, NoWrite if nothing
    download,          \* content of the file the last export downloaded
    phase,             \* "boot": page loaded, effects not run; "run"
    lastOp             \* the handleSend entry point, import or page load that ran
                       \* last, if any

vars == <<now, userSettings, sessions, currentSessionId, isLoading,
          selectedModel, stopGenerationRef, chatSession, currentModelId,
          currentApiKey, sends, store, settingsStore, syncWrite, download,
          phase, lastOp>>

----------------------------------------------------------------------------
(* Bounds *)

MaxSends    == 2   \* handleSend invocations that pass the guard
MaxChunks   == 2   \* chunks the streams yield in total
MaxSessions == 3   \* length of the session list
MaxTextLen  == 32  \* length of the longest text typed in the composer
MaxJumps    == 3   \* clock jumps longer than the throttle window
MaxFine     == 0   \* single milliseconds the clock advances after a jump
Epoch       == 100 \* Date.now() at startup

----------------------------------------------------------------------------
(* Program constants *)

ThrottleMs == 50
TitleLen   == 30

Null   == [isNull |-> TRUE, apiKey |-> <<>>]    \* userSettings === null
NoId   == 0                                      \* currentSessionId === null
NoChat == [live |-> FALSE, model |-> "", apiKey |-> <<>>, serial |-> 0]  \* chatSession === null

ProModel   == "gemini-3-pro-preview"
FlashModel == "gemini-2.5-flash"

AVAILABLE_MODELS ==
    {"gemini-3-pro-preview", "gemini-2.0-pro-exp-02-05",
     "gemini-2.5-flash", "gemini-flash-lite-latest"}

DefaultTitle == <<"(", "N", "e", "w", " ", "C", "h", "a", "t", ")">>
NewChat      == <<"N", "e", "w", " ", "C", "h", "a", "t">>

Ellipsis == <<".", ".", ".">>

QuotaNotice ==
    <<"High Traffic on Pro Model / Switching to Gemini 2.5 Flash / (Please retry your last message)">>

ConnErrOpen  == <<"\n(Connection Error: ">>
ConnErrClose == <<")">>
Unknown      == <<"U", "n", "k", "n", "o", "w", "n">>

----------------------------------------------------------------------------
(* Inputs *)

\* instants at which the clock is read
ClockValues ==
    {Epoch + j * (ThrottleMs + 1) + i : j \in 0..MaxJumps, i \in 0..MaxFine}

\* text typed in the composer
UserTexts == {<<"h", "i">>}

Digits == <<"0", "1", "2", "3", "4", "5", "6", "7", "8", "9">>

\* the text of n characters "1234567890123..."
TextOfLen(n) == [i \in 1..n |-> Digits[(i % 10) + 1]]

\* texts typed in the composer around the length at which a title is cut
TitleTexts == {TextOfLen(n) : n \in {1} \cup ((TitleLen - 1)..MaxTextLen)}

\* attachment lists picked in the composer
AttachmentLists == {<<[name |-> "f1", file |-> "File"]>>}

\* quick-action chips of a rendered model message: text and hidden flag
QuickActions == {[text |-> <<"Q", "Z">>, hidden |-> TRUE]}

\* text of the j-th chunk a stream yields
ChunkAt(j) == IF j % 2 = 1 THEN <<"a">> ELSE <<"b">>

\* error.message of a rejected request or a failed stream; <<>> is an
\* error without a message
ErrorMessages == {<<"4", "2", "9">>, <<"n", "e", "t">>}

ApiKeys == {<<"A", "I", "z", "a", "1">>}

\* values typed into the title input
TitleInputs == {<<"T">>, NewChat \o <<"2">>}

\* entries of the model menu the user clicks
ModelChoices == {"gemini-3-pro-preview", "gemini-flash-lite-latest"}

----------------------------------------------------------------------------
(* Pure helpers *)

\* String.prototype.includes
Includes(s, sub) ==
    \E i \in 0..(Len(s) - Len(sub)) :
        \A j \in 1..Len(sub) : s[i + j] = sub[j]

\* a slice that cuts nothing
Slice0_Whole(s, n) == s

\* String.prototype.slice(0, n)
Slice0(s, n) == IF Len(s) <= n THEN s ELSE SubSeq(s, 1, n)

IsPrefix(p, s) == Len(p) <= Len(s) /\ SubSeq(s, 1, Len(p)) = p

\* Array.prototype.map
MapSeq(s, F(_)) == [i \in 1..Len(s) |-> F(s[i])]

\* Array.prototype.filter((_, i) => i !== index)
RemoveAt(s, index) ==
    [i \in 1..(Len(s) - 1) |-> IF i < index THEN s[i] ELSE s[i + 1]]

\* userSettings?.apiKey is truthy
HasCredential == ~userSettings.isNull /\ userSettings.apiKey # <<>>

----------------------------------------------------------------------------
(* Records *)

\* a Message built by handleSend for the user's turn
UserMessage(id, text, hidden, files, model) ==
    [id |-> id, role |-> "user", text |-> text, isStreaming |-> FALSE,
     error |-> FALSE, isHidden |-> hidden, attachments |-> files,
     modelId |-> model]

\* the placeholder Message built by handleSend for the model's turn
InitialBotMessage(id, model) ==
    [id |-> id, role |-> "model", text |-> <<>>, isStreaming |-> TRUE,
     error |-> FALSE, isHidden |-> FALSE, attachments |-> <<>>,
     modelId |-> model]

NewSession(t) ==
    [id |-> t, title |-> DefaultTitle, messages |-> <<>>, updatedAt |-> t]

NoOp == [op |-> "init", k |-> 0]
Op(name, k) == [op |-> name, k |-> k]

----------------------------------------------------------------------------
(* Derived state *)

\* sessions.find(s => s.id === id): index of the first match, 0 if none
FindIndex(S, id) ==
    IF \E i \in 1..Len(S) : S[i].id = id
    THEN CHOOSE i \in 1..Len(S) :
            S[i].id = id /\ \A j \in 1..(i - 1) : S[j].id # id
    ELSE 0

\* currentSession?.messages || []
messages ==
    LET i == FindIndex(sessions, currentSessionId)
    IN  IF i = 0 THEN <<>> ELSE sessions[i].messages

----------------------------------------------------------------------------
(* State updaters (the functions handed to setSessions) *)

\* title derived by updateCurrentMessages for session s
DerivedTitle(s, newMessages) ==
    IF Len(s.messages) = 0 /\ Len(newMessages) > 0 /\ Includes(s.title, NewChat)
    THEN IF \E i \in 1..Len(newMessages) : newMessages[i].role = "user"
         THEN LET i == CHOOSE i \in 1..Len(newMessages) :
                          /\ newMessages[i].role = "user"
                          /\ \A j \in 1..(i - 1) : newMessages[j].role # "user"
                  t == newMessages[i].text
              IN  Slice0(t, TitleLen)
                     \o (IF Len(t) > TitleLen THEN Ellipsis ELSE <<>>)
         ELSE s.title
    ELSE s.title

\* updateCurrentMessages that stamps the session with its creation time
updateCurrentMessages_StampsCreation(S, csid, newMessages, t) ==
    IF csid = NoId THEN S
    ELSE MapSeq(S, LAMBDA s :
            IF s.id = csid
            THEN [s EXCEPT !.messages = newMessages,
                           !.title = DerivedTitle(s, newMessages),
                           !.updatedAt = s.id]
            ELSE s)

\* updateCurrentMessages(newMessages) applied to the pending list S, with
\* the currentSessionId of the calling closure
updateCurrentMessages(S, csid, newMessages, t) ==
    IF csid = NoId THEN S
    ELSE MapSeq(S, LAMBDA s :
            IF s.id = csid
            THEN [s EXCEPT !.messages = newMessages,
                           !.title = DerivedTitle(s, newMessages),
                           !.updatedAt = t]
            ELSE s)

\* prev.map(s => s.id === sid ? {...s, messages: s.messages.map(
\*     m => m.id === mid ? F(m) : m)} : s)
PatchMessage(S, sid, mid, F(_)) ==
    MapSeq(S, LAMBDA s :
        IF s.id = sid
        THEN [s EXCEPT !.messages =
                 MapSeq(s.messages, LAMBDA m : IF m.id = mid THEN F(m) ELSE m)]
        ELSE s)

\* the updater of handleStop
StopPatch(S, csid) ==
    IF csid = NoId THEN S
    ELSE MapSeq(S, LAMBDA s :
            IF s.id = csid
            THEN [s EXCEPT !.messages =
                     MapSeq(s.messages, LAMBDA msg :
                        IF msg.isStreaming
                        THEN [msg EXCEPT !.isStreaming = FALSE,
                                         !.text = msg.text \o Ellipsis]
                        ELSE msg)]
            ELSE s)

\* a patch keyed by the session alone
ChunkPatch_WholeSession(S, sid, mid, fullText) ==
    MapSeq(S, LAMBDA s :
        IF s.id = sid
        THEN [s EXCEPT !.messages =
                 MapSeq(s.messages, LAMBDA m : [m EXCEPT !.text = fullText])]
        ELSE s)

\* the throttled patch of the stream loop
ChunkPatch(S, sid, mid, fullText) ==
    PatchMessage(S, sid, mid, LAMBDA m : [m EXCEPT !.text = fullText])

\* FinalPatch that clears isStreaming and leaves the text as last patched
FinalPatch_KeepText(S, sid, mid, fullText) ==
    PatchMessage(S, sid, mid, LAMBDA m : [m EXCEPT !.isStreaming = FALSE])

\* the final update after the stream loop
FinalPatch(S, sid, mid, fullText) ==
    PatchMessage(S, sid, mid,
        LAMBDA m : [m EXCEPT !.text = fullText, !.isStreaming = FALSE])

\* the update of the auto-fallback branch of the catch block
QuotaPatch(S, sid, mid) ==
    PatchMessage(S, sid, mid,
        LAMBDA m : [m EXCEPT !.text = QuotaNotice, !.error = TRUE,
                             !.isStreaming = FALSE])

\* a generic branch that drops the text shown so far
GenericErrorPatch_Replaces(S, sid, mid, message) ==
    PatchMessage(S, sid, mid,
        LAMBDA m : [m EXCEPT
            !.text = ConnErrOpen
                        \o (IF message = <<>> THEN Unknown ELSE message)
                        \o ConnErrClose,
            !.error = TRUE, !.isStreaming = FALSE])

\* the update of the generic branch of the catch block
GenericErrorPatch(S, sid, mid, message) ==
    PatchMessage(S, sid, mid,
        LAMBDA m : [m EXCEPT
            !.text = m.text \o ConnErrOpen
                        \o (IF message = <<>> THEN Unknown ELSE message)
                        \o ConnErrClose,
            !.error = TRUE, !.isStreaming = FALSE])

\* isQuotaError of the catch block
IsQuotaError(message) ==
    \/ Includes(message, <<"4", "2", "9">>)
    \/ Includes(message, <<"q", "u", "o", "t", "a">>)
    \/ Includes(message, <<"e", "x", "h", "a", "u", "s", "t", "e", "d">>)

\* TakesFallback that does not look at the model
TakesFallback_AnyModel(message, model) == IsQuotaError(message)

\* the branch the catch block takes for a send started with model
TakesFallback(message, model) == IsQuotaError(message) /\ model = ProModel

\* a loop without throttle
ThrottleOpen_Always(t, lastUpdateTime) == TRUE

\* the throttle test of the stream loop
ThrottleOpen(t, lastUpdateTime) == t - lastUpdateTime > ThrottleMs

----------------------------------------------------------------------------
(* The localStorage documents.  A document is kept as what JSON.parse      *)
(* makes of it: nothing stored, a text that does not parse, a value that   *)
(* is not an array, or the array of sessions.                              *)

MissingDoc == [kind |-> "missing", list |-> <<>>]
GarbageDoc == [kind |-> "garbage", list |-> <<>>]
ValueDoc   == [kind |-> "value", list |-> <<>>]
ListDoc(S) == [kind |-> "list", list |-> S]

\* no write to the sessions key
NoWrite == [kind |-> "nowrite", list |-> <<>>]

\* JSON.stringify of an Attachment: the File object comes out as {}
StringifyAttachment(a) == [a EXCEPT !.file = "{}"]

\* JSON.stringify of a Message
StringifyMessage(m) ==
    [m EXCEPT !.attachments =
        [i \in 1..Len(m.attachments) |-> StringifyAttachment(m.attachments[i])]]

\* JSON.stringify(sessions), as the document it parses back to
Stringify(S) ==
    ListDoc([i \in 1..Len(S) |->
        [S[i] EXCEPT !.messages =
            [j \in 1..Len(S[i].messages) |->
                StringifyMessage(S[i].messages[j])]]])

RECURSIVE SortByUpdatedAt(_)
\* parsed.sort((a, b) => b.updatedAt - a.updatedAt): stable, descending
SortByUpdatedAt(S) ==
    IF Len(S) <= 1 THEN S
    ELSE LET front == SortByUpdatedAt(SubSeq(S, 1, Len(S) - 1))
             x     == S[Len(S)]
             n     == Cardinality({i \in 1..Len(front) :
                                      front[i].updatedAt >= x.updatedAt})
         IN  SubSeq(front, 1, n) \o <<x>> \o SubSeq(front, n + 1, Len(front))

\* deleteSession without the forced save
ForceSave_Skipped(newSessions) == NoWrite

\* localStorage.setItem('ayat_chat_sessions', JSON.stringify(newSessions))
\* in deleteSession
ForceSave(newSessions) == Stringify(newSessions)

\* the sessions document after a handler that itself wrote w to it
Written(w) == IF w = NoWrite THEN store ELSE w

\* a page without the auto-save effect
AutoSave_Never(doc) == store' = doc

\* the auto-save effect, run after the render that follows a handler which
\* left the sessions document as doc
AutoSave(doc) ==
    store' = IF sessions' # sessions /\ Len(sessions') > 0
             THEN Stringify(sessions')
             ELSE doc

Settings(k) == [isNull |-> FALSE, apiKey |-> k]

MissingSettings == [kind |-> "missing", value |-> Null]
GarbageSettings == [kind |-> "garbage", value |-> Null]
\* JSON.stringify(settings)
SettingsDoc(u)  == [kind |-> "object", value |-> u]

----------------------------------------------------------------------------
(* Initial state: the mount effects ran with nothing stored under the      *)
(* sessions key, so createNewSession made the first session; the settings  *)
(* key held nothing, a document without a key, or a document with a key.   *)

Init ==
    /\ now = Epoch
    /\ userSettings \in {Null} \cup {Settings(k) : k \in ApiKeys \cup {<<>>}}
    /\ sessions = <<NewSession(Epoch)>>
    /\ currentSessionId = Epoch
    /\ isLoading = FALSE
    /\ selectedModel = ProModel
    /\ stopGenerationRef = FALSE
    /\ chatSession = NoChat
    /\ currentModelId = ProModel
    /\ currentApiKey = <<>>
    /\ sends = <<>>
    /\ store = Stringify(sessions)
    /\ settingsStore = IF userSettings.isNull THEN MissingSettings
                       ELSE SettingsDoc(userSettings)
    /\ syncWrite = NoWrite
    /\ download = MissingDoc
    /\ phase = "run"
    /\ lastOp = NoOp

\* App renders the chat UI only when userSettings is set
Rendered == phase = "run" /\ ~userSettings.isNull

----------------------------------------------------------------------------
(* The clock *)

\* the values the next call of Date.now() may return
Readings == {t \in ClockValues : t >= now}

\* the values it may return in the handler of a user gesture: no two
\* gestures fall in the same millisecond, nor a gesture in that of startup
GestureReadings == {t \in ClockValues : t > now}

----------------------------------------------------------------------------
(* handleSend *)

\* getChatSession that does not compare the model
ReusesHandle_IgnoresModel(modelId, apiKey) ==
    chatSession # NoChat /\ currentApiKey = apiKey

\* getChatSession(modelId, apiKey) reuses the cached handle
ReusesHandle(modelId, apiKey) ==
    chatSession # NoChat /\ currentModelId = modelId /\ currentApiKey = apiKey

\* handles created so far by this page: each is the handle of the send
\* whose getChatSession call created it
HandlesCreated ==
    IF sends = <<>> THEN 0
    ELSE CHOOSE n \in {sends[k].handle : k \in 1..Len(sends)} :
            \A k \in 1..Len(sends) : sends[k].handle <= n

\* new GoogleGenAI({apiKey}).chats.create({model}): the handles are
\* numbered in the order of their creation
ChatsCreate(modelId, apiKey) ==
    [live |-> TRUE, model |-> modelId, apiKey |-> apiKey,
     serial |-> HandlesCreated + 1]

\* the record of a handleSend call: the values its closure captured and
\* uses after the first await (sid = currentSessionId, model =
\* selectedModel), botMessageId, the locals fullText and lastUpdateTime and
\* its position pc: "stream" while it awaits the request or the next chunk
\* (it reads and writes nothing between the two awaits), "done" once the
\* finally block ran.  nChunks counts the chunks the stream yielded and
\* nPatches the throttled patches applied; stopped and bufAtStop record
\* that handleStop ran while the call was in flight and the value of
\* fullText at that moment; outcome names the path the call returned on;
\* handle is the number of the handle getChatSession returned to the call.
NewSend(sid, botMessageId, model, handle) ==
    [sid |-> sid, botMessageId |-> botMessageId, model |-> model,
     handle |-> handle,
     pc |-> "stream", fullText |-> <<>>, lastUpdateTime |-> 0,
     nChunks |-> 0, nPatches |-> 0, stopped |-> FALSE, bufAtStop |-> <<>>,
     outcome |-> "none"]

\* the record of a call that returned: its locals are gone
Returned(s, outcome) ==
    [s EXCEPT !.pc = "done", !.outcome = outcome, !.fullText = <<>>,
              !.lastUpdateTime = 0]

\* handleSend without the credential guard
handleSend_NoGuard(S, text, files, hidden, t) ==
    IF FALSE
    THEN /\ sessions' = S
         /\ UNCHANGED <<isLoading, stopGenerationRef, chatSession,
                        currentModelId, currentApiKey, sends>>
    ELSE LET userMessage == UserMessage(t, text, hidden, files, selectedModel)
             botMessageId == t + 1
             newMessagesWithUser == messages \o <<userMessage>>
             newMessagesWithBot ==
                 newMessagesWithUser
                    \o <<InitialBotMessage(botMessageId, selectedModel)>>
             S1 == updateCurrentMessages(S, currentSessionId,
                                         newMessagesWithUser, t)
             S2 == updateCurrentMessages(S1, currentSessionId,
                                         newMessagesWithBot, t)
         IN  /\ stopGenerationRef' = FALSE
             /\ sessions' = S2
             /\ isLoading' = TRUE
             /\ IF ReusesHandle(selectedModel, userSettings.apiKey)
                THEN UNCHANGED <<chatSession, currentModelId, currentApiKey>>
                ELSE /\ currentModelId' = selectedModel
                     /\ currentApiKey' = userSettings.apiKey
                     /\ chatSession' = ChatsCreate(selectedModel,
                                                   userSettings.apiKey)
             /\ sends' = Append(sends,
                    NewSend(currentSessionId, botMessageId, selectedModel,
                            chatSession'.serial))

\* handleSend(text, attachments) run in the closure of the current render
\* on top of the pending session list S; the synchronous part up to the
\* first await, getChatSession included; t is the value of Date.now()
handleSend(S, text, files, hidden, t) ==
    IF ~HasCredential
    THEN /\ sessions' = S
         /\ UNCHANGED <<isLoading, stopGenerationRef, chatSession,
                        currentModelId, currentApiKey, sends>>
    ELSE LET userMessage == UserMessage(t, text, hidden, files, selectedModel)
             botMessageId == t + 1
             newMessagesWithUser == messages \o <<userMessage>>
             newMessagesWithBot ==
                 newMessagesWithUser
                    \o <<InitialBotMessage(botMessageId, selectedModel)>>
             S1 == updateCurrentMessages(S, currentSessionId,
                                         newMessagesWithUser, t)
             S2 == updateCurrentMessages(S1, currentSessionId,
                                         newMessagesWithBot, t)
         IN  /\ stopGenerationRef' = FALSE
             /\ sessions' = S2
             /\ isLoading' = TRUE
             /\ IF ReusesHandle(selectedModel, userSettings.apiKey)
                THEN UNCHANGED <<chatSession, currentModelId, currentApiKey>>
                ELSE /\ currentModelId' = selectedModel
                     /\ currentApiKey' = userSettings.apiKey
                     /\ chatSession' = ChatsCreate(selectedModel,
                                                   userSettings.apiKey)
             /\ sends' = Append(sends,
                    NewSend(currentSessionId, botMessageId, selectedModel,
                            chatSession'.serial))

\* index of the send a handleSend call made now creates, 0 if the guard
\* returns
SendIndex == IF HasCredential THEN Len(sends) + 1 ELSE 0

\* ChatInput.handleSubmit calling onSend
ComposerSubmit(text, files) ==
    /\ Rendered
    /\ (text # <<>> \/ files # <<>>)
    /\ ~isLoading
    /\ HasCredential => Len(sends) < MaxSends
    /\ \E t \in (IF HasCredential THEN GestureReadings ELSE {now}) :
          /\ now' = t
          /\ handleSend(sessions, text, files, FALSE, t)
    /\ lastOp' = Op("submit", SendIndex)
    /\ UNCHANGED <<userSettings, currentSessionId, selectedModel>>
    /\ AutoSave(store)
    /\ syncWrite' = NoWrite
    /\ UNCHANGED <<settingsStore, download, phase>>

\* a quick-action chip in the footer of rendered model message i
QuickAction(i, qa) ==
    /\ Rendered
    /\ i \in 1..Len(messages)
    /\ messages[i].role = "model"
    /\ ~messages[i].isHidden
    /\ ~messages[i].isStreaming
    /\ ~messages[i].error
    /\ HasCredential => Len(sends) < MaxSends
    /\ \E t \in (IF HasCredential THEN GestureReadings ELSE {now}) :
          /\ now' = t
          /\ handleSend(sessions, qa.text, <<>>, qa.hidden, t)
    /\ lastOp' = Op("action", SendIndex)
    /\ UNCHANGED <<userSettings, currentSessionId, selectedModel>>
    /\ AutoSave(store)
    /\ syncWrite' = NoWrite
    /\ UNCHANGED <<settingsStore, download, phase>>

\* handleResend(index), offered on user messages and on error messages
handleResend(i) ==
    /\ Rendered
    /\ i \in 1..Len(messages)
    /\ ~messages[i].isHidden
    /\ (messages[i].role = "user" \/ messages[i].error)
    /\ HasCredential => Len(sends) < MaxSends
    /\ \E t \in GestureReadings :
          LET msgToResend == messages[i]
              updated == SubSeq(messages, 1, i - 1)
          IN  /\ now' = t
              /\ handleSend(updateCurrentMessages(sessions, currentSessionId,
                                                  updated, t),
                            msgToResend.text, msgToResend.attachments,
                            FALSE, t)
    /\ lastOp' = Op("resend", SendIndex)
    /\ UNCHANGED <<userSettings, currentSessionId, selectedModel>>
    /\ AutoSave(store)
    /\ syncWrite' = NoWrite
    /\ UNCHANGED <<settingsStore, download, phase>>

----------------------------------------------------------------------------
(* The other handlers of App *)

InFlight(k) == sends[k].pc # "done"

\* handleStop, behind the stop button ChatInput shows while isLoading
handleStop ==
    /\ Rendered
    /\ isLoading
    /\ stopGenerationRef' = TRUE
    /\ isLoading' = FALSE
    /\ sessions' = StopPatch(sessions, currentSessionId)
    /\ sends' = [k \in 1..Len(sends) |->
                    IF InFlight(k)
                    THEN [sends[k] EXCEPT !.stopped = TRUE,
                                          !.bufAtStop = sends[k].fullText]
                    ELSE sends[k]]
    /\ lastOp' = Op("other", 0)
    /\ UNCHANGED <<now, userSettings, currentSessionId, selectedModel,
                   chatSession, currentModelId, currentApiKey>>
    /\ AutoSave(store)
    /\ syncWrite' = NoWrite
    /\ UNCHANGED <<settingsStore, download, phase>>

\* handleDeleteMessage(index), behind the delete button of rendered message i
handleDeleteMessage(i) ==
    /\ Rendered
    /\ i \in 1..Len(messages)
    /\ ~messages[i].isHidden
    /\ \E t \in GestureReadings :
          /\ now' = t
          /\ sessions' = updateCurrentMessages(sessions, currentSessionId,
                                               RemoveAt(messages, i), t)
    /\ lastOp' = Op("other", 0)
    /\ UNCHANGED <<userSettings, currentSessionId, isLoading,
                   selectedModel, stopGenerationRef, chatSession,
                   currentModelId, currentApiKey, sends>>
    /\ AutoSave(store)
    /\ syncWrite' = NoWrite
    /\ UNCHANGED <<settingsStore, download, phase>>

\* onSelectSession(id) of the side menu
onSelectSession(id) ==
    /\ Rendered
    /\ \E i \in 1..Len(sessions) : sessions[i].id = id
    /\ currentSessionId' = id
    /\ lastOp' = Op("other", 0)
    /\ UNCHANGED <<now, userSettings, sessions, isLoading, selectedModel,
                   stopGenerationRef, chatSession, currentModelId,
                   currentApiKey, sends>>
    /\ AutoSave(store)
    /\ syncWrite' = NoWrite
    /\ UNCHANGED <<settingsStore, download, phase>>

\* a new session put at the end of the list
Prepend_AtEnd(x, S) == S \o <<x>>

\* [newSession, ...prev]
Prepend(x, S) == <<x>> \o S

\* createNewSession
createNewSession ==
    /\ Rendered
    /\ Len(sessions) < MaxSessions
    /\ \E t \in GestureReadings :
          /\ now' = t
          /\ sessions' = Prepend(NewSession(t), sessions)
          /\ currentSessionId' = t
    /\ chatSession' = NoChat
    /\ lastOp' = Op("other", 0)
    /\ UNCHANGED <<userSettings, isLoading, selectedModel,
                   stopGenerationRef, currentModelId, currentApiKey, sends>>
    /\ AutoSave(store)
    /\ syncWrite' = NoWrite
    /\ UNCHANGED <<settingsStore, download, phase>>

\* a filter that removes nothing
WithoutSession_KeepsAll(S, id) == S

\* sessions.filter(s => s.id !== id)
WithoutSession(S, id) == SelectSeq(S, LAMBDA s : s.id # id)

\* an active id that is not moved off the deleted session
NextActive_Stale(newSessions) == currentSessionId

\* newSessions[0].id
NextActive(newSessions) == newSessions[1].id

\* deleteSession(id)
deleteSession(id) ==
    /\ Rendered
    /\ \E i \in 1..Len(sessions) : sessions[i].id = id
    /\ LET newSessions == WithoutSession(sessions, id)
       IN  IF currentSessionId = id
           THEN IF Len(newSessions) > 0
                THEN /\ sessions' = newSessions
                     /\ currentSessionId' = NextActive(newSessions)
                     /\ UNCHANGED <<now, chatSession>>
                ELSE \E t \in GestureReadings :
                        /\ now' = t
                        /\ sessions' = Prepend(NewSession(t), newSessions)
                        /\ currentSessionId' = t
                        /\ chatSession' = NoChat
           ELSE /\ sessions' = newSessions
                /\ UNCHANGED <<now, currentSessionId, chatSession>>
    /\ lastOp' = Op("other", 0)
    /\ UNCHANGED <<userSettings, isLoading, selectedModel,
                   stopGenerationRef, currentModelId, currentApiKey, sends>>
    /\ syncWrite' = ForceSave(WithoutSession(sessions, id))
    /\ AutoSave(Written(syncWrite'))
    /\ UNCHANGED <<settingsStore, download, phase>>

\* a click on an entry of the model menu
SelectModel(m) ==
    /\ Rendered
    /\ m \in AVAILABLE_MODELS
    /\ selectedModel' = m
    /\ lastOp' = Op("other", 0)
    /\ UNCHANGED <<now, userSettings, sessions, currentSessionId, isLoading,
                   stopGenerationRef, chatSession, currentModelId,
                   currentApiKey, sends>>
    /\ AutoSave(store)
    /\ syncWrite' = NoWrite
    /\ UNCHANGED <<settingsStore, download, phase>>

\* WelcomeScreen submit: the key must start with 'AIza'
onComplete(k) ==
    /\ phase = "run"
    /\ userSettings.isNull
    /\ IsPrefix(<<"A", "I", "z", "a">>, k)
    /\ userSettings' = Settings(k)
    /\ lastOp' = Op("other", 0)
    /\ UNCHANGED <<now, sessions, currentSessionId, isLoading, selectedModel,
                   stopGenerationRef, chatSession, currentModelId,
                   currentApiKey, sends>>
    /\ settingsStore' = SettingsDoc(Settings(k))
    /\ AutoSave(store)
    /\ syncWrite' = NoWrite
    /\ UNCHANGED <<download, phase>>

\* the title input: updateSessionTitle(currentSessionId, e.target.value)
updateSessionTitle(newTitle) ==
    /\ Rendered
    /\ currentSessionId # NoId
    /\ \E t \in GestureReadings :
          /\ now' = t
          /\ sessions' = [i \in 1..Len(sessions) |->
                            IF sessions[i].id = currentSessionId
                            THEN [sessions[i] EXCEPT !.title = newTitle,
                                                     !.updatedAt = t]
                            ELSE sessions[i]]
    /\ lastOp' = Op("other", 0)
    /\ UNCHANGED <<userSettings, currentSessionId, isLoading,
                   selectedModel, stopGenerationRef, chatSession,
                   currentModelId, currentApiKey, sends>>
    /\ AutoSave(store)
    /\ syncWrite' = NoWrite
    /\ UNCHANGED <<settingsStore, download, phase>>

----------------------------------------------------------------------------
(* Page load, export and import *)

\* the state of a page that has just been loaded, before its effects run
Loaded ==
    /\ userSettings = Null
    /\ sessions = <<>>
    /\ currentSessionId = NoId
    /\ isLoading = FALSE
    /\ selectedModel = ProModel
    /\ stopGenerationRef = FALSE
    /\ chatSession = NoChat
    /\ currentModelId = ProModel
    /\ currentApiKey = <<>>
    /\ sends = <<>>
    /\ phase = "boot"

\* a load-settings effect that takes a text that does not parse for an
\* empty settings object
LoadedSettings_NoCatch(doc) ==
    IF doc.kind = "object" THEN doc.value
    ELSE IF doc.kind = "garbage" THEN Settings(<<>>) ELSE Null

\* the settings the load-settings effect sets from the stored document
LoadedSettings(doc) == IF doc.kind = "object" THEN doc.value ELSE Null

\* the sessions the load-sessions effect sets from the stored document:
\* <<>> where it falls back to createNewSession
LoadedSessions(doc) ==
    IF doc.kind = "list" THEN SortByUpdatedAt(doc.list) ELSE <<>>

\* the three mount effects: load settings, load sessions, auto-save
Mount ==
    /\ phase = "boot"
    /\ userSettings' = LoadedSettings(settingsStore)
    /\ LET parsed == LoadedSessions(store)
       IN  IF Len(parsed) > 0
           THEN /\ sessions' = parsed
                /\ currentSessionId' = parsed[1].id
                /\ UNCHANGED now
           ELSE \E t \in Readings :
                /\ now' = t
                /\ sessions' = Prepend(NewSession(t), <<>>)
                /\ currentSessionId' = t
    /\ chatSession' = NoChat
    /\ phase' = "run"
    /\ lastOp' = Op("mount", Len(LoadedSessions(store)))
    /\ UNCHANGED <<isLoading, selectedModel, stopGenerationRef,
                   currentModelId, currentApiKey, sends>>
    /\ AutoSave(store)
    /\ syncWrite' = NoWrite
    /\ UNCHANGED <<settingsStore, download>>

\* handleExport of the side menu
handleExport ==
    /\ Rendered
    /\ download' = Stringify(sessions)
    /\ lastOp' = Op("other", 0)
    /\ syncWrite' = NoWrite
    /\ UNCHANGED <<now, userSettings, sessions, currentSessionId, isLoading,
                   selectedModel, stopGenerationRef, chatSession,
                   currentModelId, currentApiKey, sends, store,
                   settingsStore, phase>>

\* the files the user may pick for an import
ImportFiles == {download, GarbageDoc, ValueDoc} \ {MissingDoc}

\* JSON.parse(content) does not throw
Parses(content) == content.kind # "garbage"

\* a test that takes every parsed value for an array
IsArray_Any(content) == TRUE

\* Array.isArray(parsed)
IsArray(content) == content.kind = "list"

\* handleImport of the side menu with the content of the picked file, and
\* the reload it triggers when it accepts the file
handleImport(content) ==
    /\ Rendered
    /\ IF Parses(content) /\ IsArray(content)
       THEN /\ store' = content
            /\ syncWrite' = content
            /\ userSettings' = Null
            /\ sessions' = <<>>
            /\ currentSessionId' = NoId
            /\ isLoading' = FALSE
            /\ selectedModel' = ProModel
            /\ stopGenerationRef' = FALSE
            /\ chatSession' = NoChat
            /\ currentModelId' = ProModel
            /\ currentApiKey' = <<>>
            /\ sends' = <<>>
            /\ phase' = "boot"
       ELSE /\ syncWrite' = NoWrite
            /\ UNCHANGED <<userSettings, sessions, currentSessionId,
                           isLoading, selectedModel, stopGenerationRef,
                           chatSession, currentModelId, currentApiKey,
                           sends, store, phase>>
    /\ lastOp' = Op("import", 0)
    /\ UNCHANGED <<now, settingsStore, download>>

----------------------------------------------------------------------------
(* The continuation of handleSend: one action per event of the stream it   *)
(* awaits                                                                  *)

\* the catch block without a finally block: the flag is cleared on the
\* try path only
CatchAndFinally_NoFinally(k, message) ==
    LET s == sends[k]
    IN  /\ IF TakesFallback(message, s.model)
           THEN /\ selectedModel' = FlashModel
                /\ sessions' = QuotaPatch(sessions, s.sid, s.botMessageId)
                /\ sends' = [sends EXCEPT ![k] = Returned(s, "quota")]
           ELSE /\ UNCHANGED selectedModel
                /\ sessions' = GenericErrorPatch(sessions, s.sid,
                                                 s.botMessageId, message)
                /\ sends' = [sends EXCEPT ![k] = Returned(s, "generic")]
        /\ UNCHANGED isLoading

\* the catch block followed by the finally block, for error.message
CatchAndFinally(k, message) ==
    LET s == sends[k]
    IN  /\ IF TakesFallback(message, s.model)
           THEN /\ selectedModel' = FlashModel
                /\ sessions' = QuotaPatch(sessions, s.sid, s.botMessageId)
                /\ sends' = [sends EXCEPT ![k] = Returned(s, "quota")]
           ELSE /\ UNCHANGED selectedModel
                /\ sessions' = GenericErrorPatch(sessions, s.sid,
                                                 s.botMessageId, message)
                /\ sends' = [sends EXCEPT ![k] = Returned(s, "generic")]
        /\ isLoading' = FALSE

\* the final update after the loop followed by the finally block
FinalUpdateAndFinally(k) ==
    LET s == sends[k]
    IN  /\ sessions' = FinalPatch(sessions, s.sid, s.botMessageId, s.fullText)
        /\ isLoading' = FALSE
        /\ UNCHANGED selectedModel

RECURSIVE SumChunks(_)
SumChunks(n) == IF n = 0 THEN 0 ELSE sends[n].nChunks + SumChunks(n - 1)

\* chunks yielded so far by all streams
TotalChunks == SumChunks(Len(sends))

\* the stream yields its next chunk: one turn of the for-await loop
StreamYields(k) ==
    /\ k \in 1..Len(sends)
    /\ sends[k].pc = "stream"
    /\ TotalChunks < MaxChunks
    /\ LET s == [sends[k] EXCEPT !.nChunks = @ + 1]
           fullText == s.fullText \o ChunkAt(s.nChunks)
       IN  IF stopGenerationRef
           THEN /\ FinalUpdateAndFinally(k)
                /\ sends' = [sends EXCEPT ![k] = Returned(s, "cancelled")]
                /\ UNCHANGED now
           ELSE \E t \in Readings :
                /\ now' = t
                /\ IF ThrottleOpen(t, s.lastUpdateTime)
                   THEN /\ sessions' = ChunkPatch(sessions, s.sid,
                                                  s.botMessageId, fullText)
                        /\ sends' = [sends EXCEPT ![k] =
                                        [s EXCEPT !.fullText = fullText,
                                                  !.lastUpdateTime = t,
                                                  !.nPatches = @ + 1]]
                   ELSE /\ UNCHANGED sessions
                        /\ sends' = [sends EXCEPT ![k] =
                                        [s EXCEPT !.fullText = fullText]]
                /\ UNCHANGED <<isLoading, selectedModel>>
    /\ lastOp' = Op("other", 0)
    /\ UNCHANGED <<userSettings, currentSessionId, stopGenerationRef,
                   chatSession, currentModelId, currentApiKey>>
    /\ AutoSave(store)
    /\ syncWrite' = NoWrite
    /\ UNCHANGED <<settingsStore, download, phase>>

\* the stream is exhausted
StreamEnds(k) ==
    /\ k \in 1..Len(sends)
    /\ sends[k].pc = "stream"
    /\ FinalUpdateAndFinally(k)
    /\ sends' = [sends EXCEPT ![k] = Returned(sends[k], "finalized")]
    /\ lastOp' = Op("other", 0)
    /\ UNCHANGED <<now, userSettings, currentSessionId, stopGenerationRef,
                   chatSession, currentModelId, currentApiKey>>
    /\ AutoSave(store)
    /\ syncWrite' = NoWrite
    /\ UNCHANGED <<settingsStore, download, phase>>

\* the request is rejected or the stream throws
StreamThrows(k, message) ==
    /\ k \in 1..Len(sends)
    /\ sends[k].pc = "stream"
    /\ CatchAndFinally(k, message)
    /\ lastOp' = Op("other", 0)
    /\ UNCHANGED <<now, userSettings, currentSessionId, stopGenerationRef,
                   chatSession, currentModelId, currentApiKey>>
    /\ AutoSave(store)
    /\ syncWrite' = NoWrite
    /\ UNCHANGED <<settingsStore, download, phase>>

----------------------------------------------------------------------------
(* Specification *)

StreamEvent(k) ==
    \/ StreamYields(k)
    \/ StreamEnds(k)
    \/ \E message \in ErrorMessages : StreamThrows(k, message)

\* the conversation: the handleSend entry points, handleStop and the
\* events of the streams
NextChat ==
    \/ \E text \in UserTexts, files \in AttachmentLists :
            ComposerSubmit(text, files)
    \/ \E i \in 1..Len(messages), qa \in QuickActions : QuickAction(i, qa)
    \/ \E i \in 1..Len(messages) : handleResend(i)
    \/ handleStop
    \/ \E k \in ApiKeys : onComplete(k)
    \/ \E k \in 1..Len(sends) : StreamEvent(k)

\* the side menu
NextSessions ==
    \/ \E i \in 1..Len(sessions) : onSelectSession(sessions[i].id)
    \/ createNewSession
    \/ \E i \in 1..Len(sessions) : deleteSession(sessions[i].id)

\* the model menu
NextModels == \E m \in ModelChoices : SelectModel(m)

\* the delete button of a message
NextMessages == \E i \in 1..Len(messages) : handleDeleteMessage(i)

\* the title input
NextTitle == \E newTitle \in TitleInputs : updateSessionTitle(newTitle)

Next == NextChat \/ NextSessions \/ NextModels \/ NextMessages \/ NextTitle

Spec == Init /\ [][Next]_vars

\* documents found under the sessions key by the first page load
StoredDocs == {MissingDoc, GarbageDoc, ValueDoc, ListDoc(<<>>)}

\* documents found under the settings key by the first page load
StoredSettings ==
    {MissingSettings, GarbageSettings} \cup
    {SettingsDoc(Settings(k)) : k \in ApiKeys}

\* a page load with any stored documents
InitLoad ==
    /\ now = Epoch
    /\ Loaded
    /\ store \in StoredDocs
    /\ settingsStore \in StoredSettings
    /\ syncWrite = NoWrite
    /\ download = MissingDoc
    /\ lastOp = NoOp

\* page loads, the side menu and the title input, with the sends that
\* give the sessions their messages
NextMenu ==
    \/ Mount
    \/ NextSessions
    \/ NextTitle
    \/ handleExport
    \/ \E content \in ImportFiles : handleImport(content)
    \/ \E k \in ApiKeys : onComplete(k)
    \/ \E text \in UserTexts, files \in AttachmentLists :
            ComposerSubmit(text, files)
    \/ \E k \in 1..Len(sends) : StreamEvent(k)

SpecMenu == InitLoad /\ [][NextMenu]_vars

\* sends of texts of every length around the cut, in sessions with the
\* default title or an edited one
NextTexts ==
    \/ \E text \in TitleTexts, files \in {<<>>} \cup AttachmentLists :
            ComposerSubmit(text, files)
    \/ \E k \in 1..Len(sends) : StreamEvent(k)
    \/ NextSessions
    \/ NextTitle

SpecTexts == Init /\ [][NextTexts]_vars

TypeOK ==
    /\ now \in ClockValues
    /\ isLoading \in BOOLEAN
    /\ stopGenerationRef \in BOOLEAN
    /\ selectedModel \in AVAILABLE_MODELS
    /\ Len(sends) <= MaxSends
    /\ Len(sessions) <= MaxSessions

----------------------------------------------------------------------------
(* Vocabulary of the properties *)

\* the messages of S that are the placeholder of send k: those with its
\* botMessageId and role model in the session(s) with the id its closure
\* captured
PlaceholdersIn(S, k) ==
    UNION {{S[i].messages[j] :
                j \in {j \in 1..Len(S[i].messages) :
                          /\ S[i].messages[j].id = sends[k].botMessageId
                          /\ S[i].messages[j].role = "model"}} :
           i \in {i \in 1..Len(S) : S[i].id = sends[k].sid}}

\* the messages of a session that are streaming
StreamingIn(s) == {j \in 1..Len(s.messages) : s.messages[j].isStreaming}

RECURSIVE Yielded(_)
\* the concatenation, in order, of the first n chunks of a stream
Yielded(n) == IF n = 0 THEN <<>> ELSE Yielded(n - 1) \o ChunkAt(n)

\* the connection-error suffix for error.message
ConnectionErrorSuffix(message) ==
    ConnErrOpen \o (IF message = <<>> THEN Unknown ELSE message) \o ConnErrClose

\* the loop of send k takes chunk number nChunks + 1 of its stream in this
\* step
Yields(k) ==
    /\ k \in 1..Len(sends) /\ k \in 1..Len(sends')
    /\ sends[k].pc = "stream"
    /\ sends'[k].nChunks = sends[k].nChunks + 1

\* send k returns in this step
Returns(k) ==
    k \in 1..Len(sends) /\ sends[k].pc = "stream" /\ sends'[k].pc = "done"

----------------------------------------------------------------------------
(* C1 *)

\* C1: in every reachable state each session holds at most one message
\* with isStreaming = true.
C1_AtMostOneStreaming ==
    \A i \in 1..Len(sessions) : Cardinality(StreamingIn(sessions[i])) <= 1

----------------------------------------------------------------------------
(* C6 *)

\* C6: at most one send is in flight, between appending its placeholder
\* and running its finally block, at any time.
C6_SingleFlight ==
    Cardinality({k \in 1..Len(sends) : InFlight(k)}) <= 1

----------------------------------------------------------------------------
(* C2 *)

\* C2: once stop() was invoked while send k was streaming, the placeholder
\* of k reaches isStreaming = false whatever the stream does afterwards,
\* hanging forever included, and whichever session is active at the stop.
\* A stream may hang from any state on, and then no later event of the
\* send touches the placeholder: the claim holds exactly when, in every
\* state where a stopped send still awaits its stream, its placeholder is
\* no longer streaming.
C2_StoppedPlaceholderFinal ==
    \A k \in 1..Len(sends) :
        (InFlight(k) /\ sends[k].stopped) =>
            \A m \in PlaceholdersIn(sessions, k) : ~m.isStreaming

----------------------------------------------------------------------------
(* C3 *)

\* C3: after stop() was invoked while send k was streaming, the text of
\* its placeholder is the buffer accumulated up to the stop followed by
\* "...", also once the cancelled send has returned.
C3_StoppedTextIsBufferAndMarker ==
    \A k \in 1..Len(sends) :
        (sends[k].stopped /\ sends[k].outcome \in {"none", "cancelled"}) =>
            \A m \in PlaceholdersIn(sessions, k) :
                m.text = sends[k].bufAtStop \o Ellipsis

----------------------------------------------------------------------------
(* C4 *)

\* C4: when the stream of send k is exhausted without error and without
\* stop, the placeholder of k has text equal to the concatenation of all
\* the chunks the stream yielded, in order, and isStreaming = false,
\* however many patches the throttle suppressed.
C4_ExhaustedTextIsAllChunks ==
    [][\A k \in 1..Len(sends) :
          (Returns(k) /\ sends'[k].outcome = "finalized" /\ ~sends[k].stopped)
             => \A m \in PlaceholdersIn(sessions', k) :
                   m.text = Yielded(sends'[k].nChunks) /\ ~m.isStreaming]_vars

\* a send finalized from two chunks of which the throttle suppressed one
C4_Witness ==
    \E k \in 1..Len(sends) :
        /\ sends[k].outcome = "finalized"
        /\ ~sends[k].stopped
        /\ sends[k].nChunks = 2
        /\ sends[k].nPatches = 1
        /\ \E m \in PlaceholdersIn(sessions, k) :
              m.text = <<"a", "b">> /\ ~m.isStreaming

----------------------------------------------------------------------------
(* C9 *)

\* C9: isLoading is false when a send returns, on the finalized path, on
\* the cancelled path and on both error paths.
C9_LoadingClearedOnReturn ==
    [][\A k \in 1..Len(sends) : Returns(k) => ~isLoading']_vars

\* one send returned on the cancelled path and another on an error path
C9_Witness ==
    /\ ~isLoading
    /\ \E k \in 1..Len(sends) : sends[k].outcome = "cancelled"
    /\ \E k \in 1..Len(sends) : sends[k].outcome \in {"quota", "generic"}

----------------------------------------------------------------------------
(* C7 *)

\* C7: when send k fails with an error whose text contains '429', 'quota'
\* or 'exhausted': if the model selected when k was sent is
\* gemini-3-pro-preview, selectedModel becomes gemini-2.5-flash and the
\* placeholder gets the retry notice as its text, error = true and
\* isStreaming = false; with any other model selectedModel is unchanged and
\* the placeholder gets the connection-error suffix appended to its text.
C7_QuotaFallbackOnlyOnPro ==
    [][\A k \in 1..Len(sends), message \in ErrorMessages :
          (StreamThrows(k, message) /\ IsQuotaError(message)) =>
             \A i \in 1..Len(sessions) : \A j \in 1..Len(sessions[i].messages) :
                (/\ sessions[i].id = sends[k].sid
                 /\ sessions[i].messages[j].id = sends[k].botMessageId
                 /\ sessions[i].messages[j].role = "model") =>
                   LET old == sessions[i].messages[j]
                       new == sessions'[i].messages[j]
                   IN  /\ new.error
                       /\ ~new.isStreaming
                       /\ IF sends[k].model = ProModel
                          THEN /\ selectedModel' = FlashModel
                               /\ new.text = QuotaNotice
                          ELSE /\ selectedModel' = selectedModel
                               /\ new.text =
                                    old.text \o ConnectionErrorSuffix(message)
      ]_vars

\* a quota error on the Pro model took the fallback, and a later quota error
\* on the model it fell back to took the generic path
C7_Witness ==
    \E k1, k2 \in 1..Len(sends) :
        /\ sends[k1].outcome = "quota"
        /\ sends[k1].model = ProModel
        /\ \E m \in PlaceholdersIn(sessions, k1) :
              m.text = QuotaNotice /\ m.error /\ ~m.isStreaming
        /\ sends[k2].outcome = "generic"
        /\ sends[k2].model = FlashModel
        /\ selectedModel = FlashModel
        /\ \E m \in PlaceholdersIn(sessions, k2) :
              /\ m.text = ConnectionErrorSuffix(<<"4", "2", "9">>)
              /\ m.error /\ ~m.isStreaming

----------------------------------------------------------------------------
(* C10 *)

\* C10: a send invoked from the composer or a quick-action chip while no
\* credential is configured changes nothing: the session list, the active
\* session, isLoading, the stop flag, the selected model and the completion
\* handle are unchanged, and no message is appended.
C10_NoCredentialNoOp ==
    [][(lastOp'.op \in {"submit", "action"} /\ ~HasCredential) =>
          UNCHANGED <<sessions, currentSessionId, isLoading,
                      stopGenerationRef, selectedModel, chatSession,
                      currentModelId, currentApiKey, sends>>]_vars

\* a composer submit that met the guard
C10_Witness ==
    /\ lastOp = Op("submit", 0)
    /\ ~HasCredential
    /\ Rendered
    /\ sends = <<>>
    /\ messages = <<>>

----------------------------------------------------------------------------
(* C5 *)

\* C5: resend(i) on a session with messages m leaves the messages before
\* position i as they were, followed only by the new user message carrying
\* the text and the attachments of m[i] and by its new placeholder; none
\* of the old messages from position i on remain.
C5_ResendTruncates ==
    [][\A i \in 1..Len(messages) :
          (handleResend(i) /\ HasCredential) =>
             LET m   == messages
                 idx == FindIndex(sessions', currentSessionId)
                 new == sessions'[idx].messages
             IN  /\ Len(new) = i + 1
                 /\ SubSeq(new, 1, i - 1) = SubSeq(m, 1, i - 1)
                 /\ new[i].role = "user"
                 /\ new[i].text = m[i].text
                 /\ new[i].attachments = m[i].attachments
                 /\ new[i + 1].role = "model"
                 /\ new[i + 1].isStreaming]_vars

----------------------------------------------------------------------------
(* C8 *)

\* C8: on a non-quota error of the stream of send k, not stopped, the
\* placeholder's text is the whole buffer accumulated from every chunk
\* consumed before the error, the chunks whose patch the throttle
\* suppressed included, followed by the connection-error suffix, with
\* error = true and isStreaming = false.
C8_GenericErrorKeepsWholeBuffer ==
    [][\A k \in 1..Len(sends), message \in ErrorMessages :
          (StreamThrows(k, message) /\ ~IsQuotaError(message)
              /\ ~sends[k].stopped) =>
             \A m \in PlaceholdersIn(sessions', k) :
                /\ m.text = Yielded(sends[k].nChunks)
                               \o ConnectionErrorSuffix(message)
                /\ m.error
                /\ ~m.isStreaming]_vars

----------------------------------------------------------------------------
(* C11 *)

\* C11: deleteSession(id) of the active session when it is the only
\* session of the list leaves a list of exactly one session, which is new,
\* has no messages, carries the default title and is the active session.
C11_DeleteLastMakesFreshSession ==
    [][\A i \in 1..Len(sessions) :
          (/\ deleteSession(sessions[i].id)
           /\ currentSessionId = sessions[i].id
           /\ Len(sessions) = 1) =>
             /\ Len(sessions') = 1
             /\ sessions'[1].id # sessions[i].id
             /\ sessions'[1].messages = <<>>
             /\ sessions'[1].title = DefaultTitle
             /\ currentSessionId' = sessions'[1].id]_vars

\* the only session was deleted and a fresh one took its place
C11_Witness ==
    /\ syncWrite = ListDoc(<<>>)
    /\ Len(sessions) = 1
    /\ sessions[1].id > Epoch
    /\ sessions[1].messages = <<>>
    /\ sessions[1].title = DefaultTitle
    /\ currentSessionId = sessions[1].id

----------------------------------------------------------------------------
(* C12 *)

\* C12: deleteSession(id) of the active session while other sessions remain
\* makes active the remaining session with the greatest updatedAt.
C12_DeleteActivatesMostRecent ==
    [][\A i \in 1..Len(sessions) :
          (/\ deleteSession(sessions[i].id)
           /\ currentSessionId = sessions[i].id
           /\ Len(sessions) > 1) =>
             \E a \in 1..Len(sessions') :
                /\ sessions'[a].id = currentSessionId'
                /\ \A j \in 1..Len(sessions') :
                      sessions'[j].updatedAt <= sessions'[a].updatedAt]_vars

----------------------------------------------------------------------------
(* C13 *)

\* C13: as soon as deleteSession(id) returns, before the auto-save effect
\* runs, the sessions document holds no session with that id, also when
\* the deleted session was the last one.
C13_DeleteSavesSynchronously ==
    [][\A i \in 1..Len(sessions) :
          deleteSession(sessions[i].id) =>
             /\ syncWrite'.kind = "list"
             /\ \A j \in 1..Len(syncWrite'.list) :
                   syncWrite'.list[j].id # sessions[i].id]_vars

\* the last session was deleted: the handler stored the empty list and the
\* auto-save effect then stored the list with the fresh session
C13_Witness ==
    /\ syncWrite = ListDoc(<<>>)
    /\ store = Stringify(sessions)
    /\ store # syncWrite

----------------------------------------------------------------------------
(* C14 *)

\* C14: in a session with no messages and the default title, sending the
\* user text t sets the title to the first 30 characters of t followed by
\* "..." when t has more than 30 characters, and to t itself when t has 30
\* characters or fewer.
C14_TitleFromFirstText ==
    [][\A text \in TitleTexts, files \in {<<>>} \cup AttachmentLists :
          (/\ ComposerSubmit(text, files)
           /\ HasCredential
           /\ messages = <<>>
           /\ FindIndex(sessions, currentSessionId) # 0
           /\ sessions[FindIndex(sessions, currentSessionId)].title
                 = DefaultTitle) =>
             sessions'[FindIndex(sessions, currentSessionId)].title =
                IF Len(text) > 30
                THEN SubSeq(text, 1, 30) \o <<".", ".", ".">>
                ELSE text]_vars

\* one session titled by a text of 31 characters, cut and marked, and one
\* titled by a text of 30 characters, kept whole
C14_Witness ==
    \E i, j \in 1..Len(sessions) :
        /\ Len(sessions[i].messages) > 0
        /\ sessions[i].messages[1].text = TextOfLen(31)
        /\ sessions[i].title = TextOfLen(30) \o <<".", ".", ".">>
        /\ Len(sessions[j].messages) > 0
        /\ sessions[j].messages[1].text = TextOfLen(30)
        /\ sessions[j].title = TextOfLen(30)

----------------------------------------------------------------------------
(* C15 *)

\* C15: the updatedAt of a session never decreases, whatever sequence of
\* updateCurrentMessages calls, title edits and stream events happens to
\* it, the clock being non-decreasing.
C15_UpdatedAtMonotone ==
    [][\A i \in 1..Len(sessions) : \A j \in 1..Len(sessions') :
          sessions'[j].id = sessions[i].id =>
             sessions'[j].updatedAt >= sessions[i].updatedAt]_vars

\* a session stamped by a title edit and later by the messages of a send
\* whose stream has ended
C15_Witness ==
    \E i \in 1..Len(sessions) : \E k \in 1..Len(sends) :
        /\ sessions[i].title = <<"T">>
        /\ Len(sessions[i].messages) >= 2
        /\ sessions[i].updatedAt > sessions[i].messages[1].id
        /\ sends[k].sid = sessions[i].id
        /\ sends[k].outcome = "finalized"

----------------------------------------------------------------------------
(* C16 *)

\* the session lists S and T hold the same sessions in the same order, each
\* with the same id and the same messages (id and text) in the same order
SameSessions(S, T) ==
    /\ Len(S) = Len(T)
    /\ \A i \in 1..Len(S) :
          /\ S[i].id = T[i].id
          /\ Len(S[i].messages) = Len(T[i].messages)
          /\ \A j \in 1..Len(S[i].messages) :
                /\ S[i].messages[j].id = T[i].messages[j].id
                /\ S[i].messages[j].text = T[i].messages[j].text

\* C16: exporting the session list and importing that exact payload,
\* followed by the reload the import triggers, reproduces the exported
\* list: the same sessions in the same order, each with the same id and
\* the same messages in the same order with the same text.
C16_ExportImportRoundTrip ==
    [][(/\ Mount
        /\ download.kind = "list"
        /\ syncWrite = download) =>
          SameSessions(sessions', download.list)]_vars

----------------------------------------------------------------------------
(* C17 *)

\* C17: an import whose file content does not parse as JSON, or parses to
\* a value that is not an array, is rejected: the sessions document and the
\* in-memory session list are unchanged and the page is not reloaded.
C17_BadImportRejected ==
    [][\A content \in {GarbageDoc, ValueDoc} :
          handleImport(content) =>
             /\ UNCHANGED <<store, sessions, currentSessionId, sends>>
             /\ phase' = "run"]_vars

\* an import was rejected on a page that holds two sessions
C17_Witness ==
    /\ lastOp = Op("import", 0)
    /\ phase = "run"
    /\ Len(sessions) = 2
    /\ store = Stringify(sessions)

----------------------------------------------------------------------------
(* C18 *)

----------------------------------------------------------------------------
(* C19 *)

----------------------------------------------------------------------------
(* C20 *)

\* C20: createNewSession puts a new session without messages at the head
\* of the list, leaves every existing session unchanged and in the same
\* order, makes the new session the active one and discards the cached
\* completion handle.
C20_CreatePrependsAndActivates ==
    [][createNewSession =>
          /\ Len(sessions') = Len(sessions) + 1
          /\ sessions'[1].messages = <<>>
          /\ SubSeq(sessions', 2, Len(sessions')) = sessions
          /\ currentSessionId' = sessions'[1].id
          /\ chatSession' = NoChat]_vars

\* a session was created on top of one that holds the messages of a send,
\* whose handle is gone
C20_Witness ==
    /\ Len(sessions) >= 2
    /\ sessions[1].id = now
    /\ sessions[1].messages = <<>>
    /\ currentSessionId = sessions[1].id
    /\ Len(sessions[2].messages) >= 2
    /\ Len(sends) >= 1
    /\ chatSession = NoChat

----------------------------------------------------------------------------
(* C21 *)

\* C21: in every state of a mounted page the session list, which the side
\* menu displays in list order, is ordered by updatedAt descending.
C21_ListOrderedByUpdatedAt ==
    phase = "run" =>
        \A i \in 1..Len(sessions) : \A j \in i..Len(sessions) :
            sessions[i].updatedAt >= sessions[j].updatedAt

----------------------------------------------------------------------------
(* C23 *)

\* C23: once handleStop ran during send k, the loop of k concatenates no
\* later chunk into its buffer, whatever the user does next: while k still
\* awaits its stream, its buffer is the buffer it had at the stop.
C23_StoppedSendConsumesNothing ==
    \A k \in 1..Len(sends) :
        (InFlight(k) /\ sends[k].stopped) =>
            sends[k].fullText = sends[k].bufAtStop

----------------------------------------------------------------------------
(* C28 *)

\* C28: once the placeholder of send k has isStreaming = false, no later
\* event of the stream of k (chunk, end of stream, error) changes its text,
\* its error flag or its isStreaming flag.
C28_FinalizedPlaceholderFrozen ==
    [][\A k \in 1..Len(sends) :
          StreamEvent(k) =>
             \A i \in 1..Len(sessions) : \A j \in 1..Len(sessions[i].messages) :
                (/\ sessions[i].id = sends[k].sid
                 /\ sessions[i].messages[j].id = sends[k].botMessageId
                 /\ sessions[i].messages[j].role = "model"
                 /\ ~sessions[i].messages[j].isStreaming) =>
                   sessions'[i].messages[j] = sessions[i].messages[j]]_vars

----------------------------------------------------------------------------
(* C30 *)

\* C30: whenever a send reuses the cached handle, every turn the handle
\* holds was sent from the session of this send: two sends that went
\* through the same handle were made in the same session.
C30_HandleContextOfOneSession ==
    \A k1 \in 1..Len(sends) : \A k2 \in 1..Len(sends) :
        sends[k1].handle = sends[k2].handle =>
            sends[k1].sid = sends[k2].sid

----------------------------------------------------------------------------
(* C25 *)

\* C25: a send from the composer changes a session's title only when the
\* session had no messages and its title still was the default
\* placeholder, and then the new title is derived from the first user
\* message that is not hidden (here the text just sent); in every other
\* case every title is unchanged.
C25_TitleChangesOnlyFromDefault ==
    [][\A text \in TitleTexts \cup UserTexts,
          files \in {<<>>} \cup AttachmentLists :
          ComposerSubmit(text, files) =>
             /\ Len(sessions') = Len(sessions)
             /\ \A i \in 1..Len(sessions) :
                   sessions'[i].title # sessions[i].title =>
                      /\ sessions[i].id = currentSessionId
                      /\ Len(sessions[i].messages) = 0
                      /\ sessions[i].title = DefaultTitle
                      /\ sessions'[i].title =
                            Slice0(text, TitleLen) \o
                              (IF Len(text) > TitleLen THEN Ellipsis
                                                       ELSE <<>>)]_vars

----------------------------------------------------------------------------
(* C27 *)

\* C27: in every state of a mounted page the session list is not empty and
\* currentSessionId is the id of a session in the list.
C27_ActiveSessionExists ==
    phase = "run" =>
        /\ Len(sessions) > 0
        /\ \E i \in 1..Len(sessions) : sessions[i].id = currentSessionId

\* the active session was deleted while others remained, after a send in
\* it: the page is mounted on a list loaded from the store, the active id
\* is a session that no send was made in, and the session of a send is gone
C27_Witness ==
    /\ phase = "run"
    /\ lastOp = Op("other", 0)
    /\ Len(sessions) = 2
    /\ Len(sends) > 0
    /\ \A i \in 1..Len(sessions) : sessions[i].id # sends[1].sid
    /\ \E i \in 1..Len(sessions) : sessions[i].id = currentSessionId

----------------------------------------------------------------------------
(* C26 *)

\* C26: after every mutation of the session list, once the auto-save effect
\* has run, the document under the sessions key is the serialization of the
\* in-memory session list.
C26_StoreFollowsSessions ==
    phase = "run" => store = Stringify(sessions)

\* two sessions, one with a sent message carrying an attachment and a
\* placeholder finalized by a stop or an error, all of it in the document,
\* in which the File object of the attachment is the empty object
C26_Witness ==
    /\ phase = "run"
    /\ Len(sessions) = 2
    /\ store = Stringify(sessions)
    /\ store # ListDoc(sessions)
    /\ \E i \in 1..Len(store.list) : \E j \in 1..Len(store.list[i].messages) :
          /\ store.list[i].messages[j].role = "model"
          /\ ~store.list[i].messages[j].isStreaming
          /\ store.list[i].messages[j].text # <<>>
          /\ store.list[i].title = <<"T">>

----------------------------------------------------------------------------
(* C24 *)

\* C24: while send k streams, the first chunk its loop consumes is patched
\* into the placeholder, a later chunk is patched only when the clock reads
\* more than 50 ms after the previous patch of k, a patch shows the whole
\* buffer, and the update made when the stream ends puts the whole buffer
\* into the placeholder whatever the time since the last patch.
C24_PatchesThrottled ==
    [][\A k \in 1..Len(sends) :
          /\ (Yields(k) /\ ~stopGenerationRef) =>
                LET patched == sends'[k].nPatches = sends[k].nPatches + 1
                IN  /\ sends[k].nChunks = 0 => patched
                    /\ (patched /\ sends[k].nPatches > 0) =>
                          now' - sends[k].lastUpdateTime > ThrottleMs
                    /\ patched =>
                          \A m \in PlaceholdersIn(sessions', k) :
                             m.text = sends'[k].fullText
                    /\ ~patched => sessions' = sessions
          /\ (Returns(k) /\ sends'[k].outcome = "finalized") =>
                \A m \in PlaceholdersIn(sessions', k) :
                   m.text = sends[k].fullText]_vars

\* a streaming send whose two chunks were both patched, the second more
\* than 50 ms after the send began
C24_Witness ==
    \E k \in 1..Len(sends) :
        /\ InFlight(k)
        /\ sends[k].nChunks = 2
        /\ sends[k].nPatches = 2
        /\ sends[k].lastUpdateTime - sends[k].botMessageId > ThrottleMs
        /\ \E m \in PlaceholdersIn(sessions, k) :
              m.text = <<"a", "b">> /\ m.isStreaming

----------------------------------------------------------------------------
(* C22 *)

\* C22: from its creation until it is finalized or marked error, every
\* change to the text of a model placeholder extends the previous text, on
\* every path, the stop and both error branches included: whenever a step
\* changes the text of a model message that is streaming and has no error,
\* the old text is a prefix of the new text.
C22_TextOnlyGrows ==
    [][\A i \in 1..Len(sessions), i2 \in 1..Len(sessions') :
          sessions[i].id = sessions'[i2].id =>
             \A j \in 1..Len(sessions[i].messages) :
             \A j2 \in 1..Len(sessions'[i2].messages) :
                LET old == sessions[i].messages[j]
                    new == sessions'[i2].messages[j2]
                IN  (/\ old.id = new.id
                     /\ old.role = "model" /\ new.role = "model"
                     /\ old.isStreaming /\ ~old.error
                     /\ new.text # old.text) =>
                       IsPrefix(old.text, new.text)]_vars

\* C22 (amended): whenever a step changes the text of a model message that
\* is streaming and has no error, either the old text is a prefix of the
\* new text, or the step is the quota fallback of the send of that
\* placeholder, which replaces the text by the retry notice and marks the
\* message error.
C22_TextGrowsButForQuotaNotice ==
    [][\A i \in 1..Len(sessions), i2 \in 1..Len(sessions') :
          sessions[i].id = sessions'[i2].id =>
             \A j \in 1..Len(sessions[i].messages) :
             \A j2 \in 1..Len(sessions'[i2].messages) :
                LET old == sessions[i].messages[j]
                    new == sessions'[i2].messages[j2]
                IN  (/\ old.id = new.id
                     /\ old.role = "model" /\ new.role = "model"
                     /\ old.isStreaming /\ ~old.error
                     /\ new.text # old.text) =>
                       \/ IsPrefix(old.text, new.text)
                       \/ /\ new.text = QuotaNotice
                          /\ new.error
                          /\ ~new.isStreaming
                          /\ \E k \in 1..Len(sends) :
                                /\ Returns(k)
                                /\ sends'[k].outcome = "quota"
                                /\ sends[k].sid = sessions[i].id
                                /\ sends[k].botMessageId = old.id]_vars

\* one placeholder that grew by a patch and then by the connection-error
\* suffix, and one whose patched text was replaced by the retry notice
C22_Witness ==
    \E k1, k2 \in 1..Len(sends) :
        /\ sends[k1].outcome = "generic"
        /\ sends[k1].nPatches = 1
        /\ ~sends[k1].stopped
        /\ \E m \in PlaceholdersIn(sessions, k1) :
              m.text = <<"a">> \o ConnectionErrorSuffix(<<"n", "e", "t">>)
        /\ sends[k2].outcome = "quota"
        /\ sends[k2].nPatches = 1
        /\ ~sends[k2].stopped
        /\ \E m \in PlaceholdersIn(sessions, k2) : m.text = QuotaNotice

----------------------------------------------------------------------------
(* C29 *)

\* C29: every event of the stream of send k (chunk, end of stream, error)
\* leaves the list with the same sessions at the same positions, changes no
\* session other than the one that was active when k started, and in that
\* session changes nothing but messages with the botMessageId of k: no
\* session and no message is added, removed or re-created.
C29_PatchesOnlyOwnPlaceholder ==
    [][\A k \in 1..Len(sends) :
          (Yields(k) \/ Returns(k)) =>
             /\ Len(sessions') = Len(sessions)
             /\ \A i \in 1..Len(sessions) :
                   IF sessions[i].id # sends[k].sid
                   THEN sessions'[i] = sessions[i]
                   ELSE /\ sessions'[i].id = sessions[i].id
                        /\ sessions'[i].title = sessions[i].title
                        /\ sessions'[i].updatedAt = sessions[i].updatedAt
                        /\ Len(sessions'[i].messages)
                              = Len(sessions[i].messages)
                        /\ \A j \in 1..Len(sessions[i].messages) :
                              \/ sessions'[i].messages[j]
                                    = sessions[i].messages[j]
                              \/ /\ sessions[i].messages[j].id
                                       = sends[k].botMessageId
                                 /\ sessions'[i].messages[j].id
                                       = sessions[i].messages[j].id
                                 /\ sessions'[i].messages[j].role
                                       = sessions[i].messages[j].role]_vars

\* a send still streaming whose placeholder was deleted and whose session
\* is no longer the active one, with a chunk patch applied no earlier than
\* the last change of the messages of that session
C29_Witness ==
    \E k \in 1..Len(sends), i \in 1..Len(sessions) :
        /\ InFlight(k)
        /\ sessions[i].id = sends[k].sid
        /\ currentSessionId # sends[k].sid
        /\ Len(sessions[i].messages) > 0
        /\ PlaceholdersIn(sessions, k) = {}
        /\ sends[k].nPatches > 0
        /\ sends[k].lastUpdateTime >= sessions[i].updatedAt
        /\ sessions[i].updatedAt > sends[k].botMessageId

====
